---- MODULE Spec2Model ----
(***************************************************************************)
(* SubscriptionService (src/unnamed/part_000) over the `subscriptions`     *)
(* table of the record store.                                              *)
(*                                                                         *)
(* Time is counted in hours since the first instant of the run: every      *)
(* duration the code uses is a whole number of hours (24 * 60 * 60 * 1000  *)
(* ms and its multiples), so one hour is written 1 and one day Day.        *)
(* The store is the sequence of rows in insertion order; a row's id is its *)
(* position, rows are never deleted by any operation of the service.       *)
(***************************************************************************)
EXTENDS Integers, Sequences, FiniteSets, TLC

VARIABLES store, now, ret, upgrade, stats

vars == <<store, now, ret, upgrade, stats>>

\* ---------------------------------------------------------------- bounds
\* Most rows the store holds in a run of Spec, SpecAccess, SpecCreate,
\* SpecLookup, SpecUpgrade, SpecFeatures, SpecStats, SpecChurn,
\* SpecDashboard and SpecIsolation.
MaxSubs == 2
MaxAccessSubs == 1
MaxCreateSubs == 2
MaxLookupSubs == 3
MaxUpgradeSubs == 2
MaxFeatureSubs == 1
MaxStatsSubs == 2
MaxChurnSubs == 10
MaxDashboardSubs == 2
MaxIsolationSubs == 2
\* Most rows the users table is counted to hold.
MaxUsers == 3
\* Last instant (hours) the clock reaches in a run.
MaxNow == 960

\* ------------------------------------------------------- values and inputs
\* null: no row, no value.
None == [null |-> TRUE]

\* An optional string argument that was not passed (stored as no value).
Absent == "absent"

\* One day in hours: 1000 * 60 * 60 * 24 ms.
Day == 24

Users == {"u1", "u2"}

\* The four plan identifiers of the type, and one the type does not list
\* (createSubscription is called with `selectedPlan as any`).
PlanTypes == {"trial", "monthly", "semiannual", "annual"}
PlanInputs == PlanTypes \cup {"lifetime"}

Statuses == {"active", "expired", "cancelled", "past_due"}

\* stripeSubscriptionId?, stripeCustomerId? as passed by a caller.
StripeRefs == {<<Absent, Absent>>, <<"sub_A", "cus_A">>, <<"sub_A", Absent>>}

\* Two pages of UpgradePage open at once, both signed in as the same tenant.
Tabs == {"tab1", "tab2"}
TabUser(tab) == "u1"

\* A quotient of two counts, kept as the fraction n / d; two fractions are
\* the same number when they agree after cross multiplication.
Ratio(n, d) == [num |-> n, den |-> d]
SameNumber(p, q) == p.num * q.den = q.num * p.den

\* The count the users table answers: a number, or null when the request
\* failed.
UserCounts == {None} \cup {[count |-> n] : n \in 0..MaxUsers}

\* Outcome of one request to the store: no error, the "no rows" error code
\* PGRST116, or any other error.
NoError == "ok"
StoreErrors == {NoError, "PGRST116", "500"}
WriteErrors == {NoError, "500"}

\* Instants at which the clock is read: the start, then 29 days, 29.5 days,
\* 30 days and 40 days later.
Instants == {0, 696, 708, 720, 960}

\* ------------------------------------------------------------ time values
\* Date.prototype.toISOString: the instant written out as <<day, hour>>.
toISOString(t) == <<t \div Day, t % Day>>

\* new Date(isoString).getTime()
getTime(iso) == iso[1] * Day + iso[2]

\* Math.ceil(a / b) for b > 0.
Ceil(a, b) == -((-a) \div b)

\* ----------------------------------------------------------- plan catalog
\* getTrialFeatures answering the ceilings of a paid plan.
getTrialFeatures_unlimited ==
  [maxCustomers |-> -1, maxBranches |-> -1, advancedAnalytics |-> FALSE,
   prioritySupport |-> FALSE, customBranding |-> FALSE, apiAccess |-> FALSE]

getTrialFeatures ==
  [maxCustomers |-> 100, maxBranches |-> 1, advancedAnalytics |-> FALSE,
   prioritySupport |-> FALSE, customBranding |-> FALSE, apiAccess |-> FALSE]

getPlanFeatures(planType) ==
  CASE planType = "trial" -> getTrialFeatures
    [] planType \in {"monthly", "semiannual", "annual"} ->
         [maxCustomers |-> -1, maxBranches |-> -1, advancedAnalytics |-> TRUE,
          prioritySupport |-> TRUE, customBranding |-> planType # "monthly",
          apiAccess |-> planType # "monthly"]
    [] OTHER -> getTrialFeatures

\* periodEnd counting a year as twelve periods of 30 days.
periodEnd_year360(planType, t) ==
  CASE planType = "trial" -> t + 30 * Day
    [] planType = "monthly" -> t + 30 * Day
    [] planType = "semiannual" -> t + 180 * Day
    [] planType = "annual" -> t + 360 * Day
    [] OTHER -> t + 30 * Day

\* The switch of createSubscription: the end of a period that starts at t.
periodEnd(planType, t) ==
  CASE planType = "trial" -> t + 30 * Day
    [] planType = "monthly" -> t + 30 * Day
    [] planType = "semiannual" -> t + 180 * Day
    [] planType = "annual" -> t + 365 * Day
    [] OTHER -> t + 30 * Day

\* ------------------------------------------------------------------ store
\* The row the insert of createSubscription writes; id, created_at and
\* updated_at are filled in by the store.
NewRow(userId, planType, stripeSubscriptionId, stripeCustomerId) ==
  [id |-> Len(store) + 1,
   user_id |-> userId,
   plan_type |-> planType,
   status |-> "active",
   stripe_subscription_id |-> stripeSubscriptionId,
   stripe_customer_id |-> stripeCustomerId,
   current_period_start |-> toISOString(now),
   current_period_end |-> toISOString(periodEnd(planType, now)),
   created_at |-> toISOString(now),
   updated_at |-> toISOString(now)]

Rows == {store[i] : i \in 1..Len(store)}

\* The query without .eq('user_id', userId).
RowsOf_everyTenant(userId) == Rows

RowsOf(userId) == {r \in Rows : r.user_id = userId}

\* The query ordered with ascending: true.
LatestRows_oldest(userId) ==
  {r \in RowsOf(userId) :
     \A q \in RowsOf(userId) : getTime(q.created_at) >= getTime(r.created_at)}

\* .eq('user_id', userId).order('created_at', {ascending: false}).limit(1)
\* .maybeSingle(): the rows the query may answer with. The order names no
\* second key, so among rows of equal created_at the store answers with any.
LatestRows(userId) ==
  {r \in RowsOf(userId) :
     \A q \in RowsOf(userId) : getTime(q.created_at) <= getTime(r.created_at)}

\* data of the query of getUserSubscription when the request ends with error:
\* no data with an error, null when the tenant has no row.
SelectLatest(userId, error) ==
  IF error # NoError \/ RowsOf(userId) = {} THEN {None} ELSE LatestRows(userId)

\* getUserSubscription without its catch: the error reaches the caller.
getUserSubscriptionOutcomes_rethrows(userId, error) ==
  IF error # NoError /\ error # "PGRST116"
  THEN {[threw |-> TRUE, value |-> None]}
  ELSE {[threw |-> FALSE, value |-> data] : data \in SelectLatest(userId, error)}

\* What getUserSubscription may end with: an error other than PGRST116 is
\* thrown inside the try and the catch answers null; otherwise data.
getUserSubscriptionOutcomes(userId, error) ==
  IF error # NoError /\ error # "PGRST116"
  THEN {[threw |-> FALSE, value |-> None]}
  ELSE {[threw |-> FALSE, value |-> data] : data \in SelectLatest(userId, error)}

\* ----------------------------------------------------------- access check
\* hasAccess decided by the period alone.
hasAccess_statusIgnored(subscription, t) ==
  getTime(subscription.current_period_end) > t

\* hasAccess lasting through the instant the period ends.
hasAccess_throughEnd(subscription, t) ==
  subscription.status = "active" /\ getTime(subscription.current_period_end) >= t

hasAccess(subscription, t) ==
  subscription.status = "active" /\ getTime(subscription.current_period_end) > t

\* daysRemaining with Math.floor in place of Math.ceil.
daysRemaining_floor(subscription, t) ==
  LET d == (getTime(subscription.current_period_end) - t) \div Day
  IN  IF d > 0 THEN d ELSE 0

daysRemaining(subscription, t) ==
  LET d == Ceil(getTime(subscription.current_period_end) - t, Day)
  IN  IF d > 0 THEN d ELSE 0

NoSubscriptionDecision ==
  [hasAccess |-> FALSE, subscription |-> None, features |-> getTrialFeatures]

\* The decision granting the plan's features only along with access.
AccessDecision_featuresWithAccess(subscription, t) ==
  IF subscription = None
  THEN NoSubscriptionDecision
  ELSE [hasAccess |-> hasAccess(subscription, t),
        subscription |-> subscription,
        features |-> IF hasAccess(subscription, t)
                     THEN getPlanFeatures(subscription.plan_type)
                     ELSE getTrialFeatures,
        daysRemaining |-> daysRemaining(subscription, t)]

AccessDecision(subscription, t) ==
  IF subscription = None
  THEN NoSubscriptionDecision
  ELSE [hasAccess |-> hasAccess(subscription, t),
        subscription |-> subscription,
        features |-> getPlanFeatures(subscription.plan_type),
        daysRemaining |-> daysRemaining(subscription, t)]

\* ------------------------------------------------------------------ state
Init ==
  /\ store = << >>
  /\ now = 0
  /\ ret = [op |-> "none", args |-> << >>, error |-> NoError, at |-> 0,
            threw |-> FALSE, value |-> None]
  /\ upgrade = [tab \in Tabs |->
                 [pc |-> "idle", selectedPlan |-> "monthly",
                  existingSubscription |-> None, error |-> FALSE]]
  /\ stats = [totalUsers |-> 0, activeSubscriptions |-> 0, trialUsers |-> 0,
              paidUsers |-> 0, totalRevenue |-> 0, monthlyRevenue |-> Ratio(0, 1),
              churnRate |-> Ratio(0, 1),
              planDistribution |-> [trial |-> 0, monthly |-> 0,
                                    semiannual |-> 0, annual |-> 0]]

\* What the last call answered: the operation, its arguments, the outcome of
\* its store request, the instant it read, whether it threw, what it returned.
Return(op, args, error, threw, value) ==
  [op |-> op, args |-> args, error |-> error, at |-> now, threw |-> threw,
   value |-> value]

\* ---------------------------------------------------------------- actions
\* createSubscription ending the tenant's earlier active rows.
createSubscription_supersedes(userId, planType, stripeSubscriptionId, stripeCustomerId, error) ==
  LET row == NewRow(userId, planType, stripeSubscriptionId, stripeCustomerId)
      args == <<userId, planType, stripeSubscriptionId, stripeCustomerId>>
      ended == [i \in 1..Len(store) |->
                  IF store[i].user_id = userId /\ store[i].status = "active"
                  THEN [store[i] EXCEPT !.status = "expired"]
                  ELSE store[i]]
  IN  /\ IF error = NoError
         THEN /\ store' = Append(ended, row)
              /\ ret' = Return("createSubscription", args, error, FALSE, row)
         ELSE /\ store' = store
              /\ ret' = Return("createSubscription", args, error, TRUE, None)
      /\ UNCHANGED now

\* createSubscription without `if (error) throw error`: it returns data.
createSubscription_swallows(userId, planType, stripeSubscriptionId, stripeCustomerId, error) ==
  LET row == NewRow(userId, planType, stripeSubscriptionId, stripeCustomerId)
      args == <<userId, planType, stripeSubscriptionId, stripeCustomerId>>
  IN  /\ IF error = NoError
         THEN /\ store' = Append(store, row)
              /\ ret' = Return("createSubscription", args, error, FALSE, row)
         ELSE /\ store' = store
              /\ ret' = Return("createSubscription", args, error, FALSE, None)
      /\ UNCHANGED now

\* createSubscription refused while the tenant has an active row.
createSubscription_unique(userId, planType, stripeSubscriptionId, stripeCustomerId, error) ==
  LET row == NewRow(userId, planType, stripeSubscriptionId, stripeCustomerId)
      args == <<userId, planType, stripeSubscriptionId, stripeCustomerId>>
      taken == \E r \in RowsOf(userId) : r.status = "active"
  IN  /\ IF error = NoError /\ ~taken
         THEN /\ store' = Append(store, row)
              /\ ret' = Return("createSubscription", args, error, FALSE, row)
         ELSE /\ store' = store
              /\ ret' = Return("createSubscription", args, error, TRUE, None)
      /\ UNCHANGED now

createSubscription(userId, planType, stripeSubscriptionId, stripeCustomerId, error) ==
  LET row == NewRow(userId, planType, stripeSubscriptionId, stripeCustomerId)
      args == <<userId, planType, stripeSubscriptionId, stripeCustomerId>>
  IN  /\ IF error = NoError
         THEN /\ store' = Append(store, row)
              /\ ret' = Return("createSubscription", args, error, FALSE, row)
         ELSE /\ store' = store
              /\ ret' = Return("createSubscription", args, error, TRUE, None)
      /\ UNCHANGED now

getUserSubscription(userId, error) ==
  /\ \E o \in getUserSubscriptionOutcomes(userId, error) :
       ret' = Return("getUserSubscription", <<userId>>, error, o.threw, o.value)
  /\ UNCHANGED <<store, now>>

\* checkSubscriptionAccess marking an elapsed active row as expired.
checkSubscriptionAccess_expires(userId, error) ==
  /\ \E o \in getUserSubscriptionOutcomes(userId, error) :
       /\ ret' = Return("checkSubscriptionAccess", <<userId>>, error, FALSE,
                        IF o.threw THEN NoSubscriptionDecision
                        ELSE AccessDecision(o.value, now))
       /\ store' = [i \in 1..Len(store) |->
                     IF /\ store[i] = o.value
                        /\ store[i].status = "active"
                        /\ getTime(store[i].current_period_end) <= now
                     THEN [store[i] EXCEPT !.status = "expired"]
                     ELSE store[i]]
  /\ UNCHANGED now

\* The try of checkSubscriptionAccess around the lookup and the decision; its
\* catch answers the decision of a tenant without subscription.
checkSubscriptionAccess(userId, error) ==
  /\ \E o \in getUserSubscriptionOutcomes(userId, error) :
       ret' = Return("checkSubscriptionAccess", <<userId>>, error, FALSE,
                     IF o.threw THEN NoSubscriptionDecision
                     ELSE AccessDecision(o.value, now))
  /\ UNCHANGED <<store, now>>

\* The update accepting only the transitions of the lifecycle table: out of
\* active, and from past_due back to active.
UpdatedRow_legalOnly(r, subscriptionId, status) ==
  IF r.id = subscriptionId
       /\ (r.status = "active" \/ (r.status = "past_due" /\ status = "active"))
  THEN [r EXCEPT !.status = status, !.updated_at = toISOString(now)]
  ELSE r

\* The update without .eq('id', subscriptionId): every row is written.
UpdatedRow_everyRow(r, subscriptionId, status) ==
  [r EXCEPT !.status = status, !.updated_at = toISOString(now)]

\* .update({status, updated_at: new Date().toISOString()}).eq('id', id)
UpdatedRow(r, subscriptionId, status) ==
  IF r.id = subscriptionId
  THEN [r EXCEPT !.status = status, !.updated_at = toISOString(now)]
  ELSE r

updateSubscriptionStatus(subscriptionId, status, error) ==
  /\ IF error = NoError
     THEN /\ store' = [i \in 1..Len(store) |->
                        UpdatedRow(store[i], subscriptionId, status)]
          /\ ret' = Return("updateSubscriptionStatus",
                           <<subscriptionId, status>>, error, FALSE, None)
     ELSE /\ store' = store
          /\ ret' = Return("updateSubscriptionStatus",
                           <<subscriptionId, status>>, error, TRUE, None)
  /\ UNCHANGED now

\* .select(...).order('created_at', {ascending: false}): every row, newest
\* first; rows of equal created_at in any order.
NewestFirst ==
  {s \in [1..Len(store) -> Rows] :
     /\ \A r \in Rows : \E i \in 1..Len(store) : s[i] = r
     /\ \A i, j \in 1..Len(store) :
          i < j => getTime(s[i].created_at) >= getTime(s[j].created_at)}

getAllSubscriptions(error) ==
  /\ IF error = NoError
     THEN \E data \in NewestFirst :
            ret' = Return("getAllSubscriptions", << >>, error, FALSE, data)
     ELSE ret' = Return("getAllSubscriptions", << >>, error, FALSE, << >>)
  /\ UNCHANGED <<store, now>>

Count(S) == Cardinality(S)

\* The flat price of one row, in cents.
Price(planType) ==
  CASE planType = "monthly" -> 299
    [] planType = "semiannual" -> 999
    [] planType = "annual" -> 1999
    [] OTHER -> 0

\* The revenue of the rows that are active only.
RECURSIVE Revenue_activeOnly(_)
Revenue_activeOnly(n) ==
  IF n = 0 THEN 0
  ELSE Revenue_activeOnly(n - 1)
         + (IF store[n].status = "active" THEN Price(store[n].plan_type) ELSE 0)

RECURSIVE Revenue(_)
Revenue(n) ==
  IF n = 0 THEN 0 ELSE Revenue(n - 1) + Price(store[n].plan_type)

ZeroStats ==
  [total |-> 0, active |-> 0, trial |-> 0, paid |-> 0, revenue |-> 0,
   churnRate |-> Ratio(0, 1)]

\* The counts reading "active" as active with a running period.
Stats_activeUnexpired ==
  LET total == Len(store)
      cancelled == Count({r \in Rows : r.status = "cancelled"})
  IN  [total |-> total,
       active |-> Count({r \in Rows : hasAccess(r, now)}),
       trial |-> Count({r \in Rows : r.plan_type = "trial"}),
       paid |-> Count({r \in Rows : r.plan_type # "trial"}),
       revenue |-> Revenue(Len(store)),
       churnRate |-> IF total > 0 THEN Ratio(cancelled * 100, total)
                     ELSE Ratio(0, 1)]

\* The churn rate taken over the rows still active.
Stats_churnOverActive ==
  LET total == Len(store)
      active == Count({r \in Rows : r.status = "active"})
      cancelled == Count({r \in Rows : r.status = "cancelled"})
  IN  [total |-> total,
       active |-> active,
       trial |-> Count({r \in Rows : r.plan_type = "trial"}),
       paid |-> Count({r \in Rows : r.plan_type # "trial"}),
       revenue |-> Revenue(Len(store)),
       churnRate |-> IF active > 0 THEN Ratio(cancelled * 100, active)
                     ELSE Ratio(0, 1)]

\* The counts reading "paid" as a row of one of the three priced plans.
Stats_paidPricedPlans ==
  LET total == Len(store)
      cancelled == Count({r \in Rows : r.status = "cancelled"})
  IN  [total |-> total,
       active |-> Count({r \in Rows : r.status = "active"}),
       trial |-> Count({r \in Rows : r.plan_type = "trial"}),
       paid |-> Count({r \in Rows :
                        r.plan_type \in {"monthly", "semiannual", "annual"}}),
       revenue |-> Revenue(Len(store)),
       churnRate |-> IF total > 0 THEN Ratio(cancelled * 100, total)
                     ELSE Ratio(0, 1)]

\* revenue is in cents; churnRate is (cancelled / total) * 100 as a fraction.
Stats ==
  LET total == Len(store)
      cancelled == Count({r \in Rows : r.status = "cancelled"})
  IN  [total |-> total,
       active |-> Count({r \in Rows : r.status = "active"}),
       trial |-> Count({r \in Rows : r.plan_type = "trial"}),
       paid |-> Count({r \in Rows : r.plan_type # "trial"}),
       revenue |-> Revenue(Len(store)),
       churnRate |-> IF total > 0 THEN Ratio(cancelled * 100, total)
                     ELSE Ratio(0, 1)]

\* getSubscriptionStats passing the store's error on to its caller.
getSubscriptionStats_rethrows(error) ==
  /\ ret' = IF error = NoError
            THEN Return("getSubscriptionStats", << >>, error, FALSE, Stats)
            ELSE Return("getSubscriptionStats", << >>, error, TRUE, None)
  /\ UNCHANGED <<store, now>>

getSubscriptionStats(error) ==
  /\ ret' = Return("getSubscriptionStats", << >>, error, FALSE,
                   IF error = NoError THEN Stats ELSE ZeroStats)
  /\ UNCHANGED <<store, now>>

\* The clock moves on to the instant t.
Tick(t) ==
  /\ t > now
  /\ now' = t
  /\ UNCHANGED <<store, ret>>

\* handleUpgrade up to its wait for the payment: setUpgrading(true),
\* setError(''), and the lookup of the tenant's existing subscription.
handleUpgradeLookup(tab, selectedPlan, error) ==
  /\ upgrade[tab].pc = "idle"
  /\ getUserSubscription(TabUser(tab), error)
  /\ upgrade' = [upgrade EXCEPT ![tab] =
                   [pc |-> "paying", selectedPlan |-> selectedPlan,
                    existingSubscription |-> ret'.value, error |-> FALSE]]
  /\ UNCHANGED stats

\* handleUpgrade after the wait: createSubscription(user.id, selectedPlan),
\* then navigate('/dashboard'), or setError in the catch; setUpgrading(false).
handleUpgradeCreate(tab, error) ==
  /\ upgrade[tab].pc = "paying"
  /\ createSubscription(TabUser(tab), upgrade[tab].selectedPlan, Absent, Absent,
                        error)
  /\ upgrade' = [upgrade EXCEPT
                   ![tab].pc = IF ret'.threw THEN "idle" ELSE "navigated",
                   ![tab].error = ret'.threw]
  /\ UNCHANGED stats

\* The dashboard's churn rate taken as the service takes it.
DashboardChurn_asService(totalUsers) == Stats.churnRate

\* churnRate of the dashboard: totalUsers > 0 ? (expired / totalUsers) * 100 : 0,
\* where null > 0 is false.
DashboardChurn(totalUsers) ==
  LET expiredSubscriptions == Count({r \in Rows : r.status = "expired"})
  IN  IF totalUsers # None /\ totalUsers.count > 0
      THEN Ratio(expiredSubscriptions * 100, totalUsers.count)
      ELSE Ratio(0, 1)

\* loadSubscriptionStats of the dashboard: the count of users, the read of
\* the subscriptions, and setStats when the read answered rows. Revenues are
\* in cents, the monthly one a fraction.
loadSubscriptionStats(totalUsers, error) ==
  LET planDistribution ==
        [trial |-> Count({r \in Rows : r.plan_type = "trial"}),
         monthly |-> Count({r \in Rows : r.plan_type = "monthly"}),
         semiannual |-> Count({r \in Rows : r.plan_type = "semiannual"}),
         annual |-> Count({r \in Rows : r.plan_type = "annual"})]
  IN  /\ stats' =
           IF error = NoError
           THEN [totalUsers |-> IF totalUsers = None THEN 0 ELSE totalUsers.count,
                 activeSubscriptions |->
                   Count({r \in Rows : r.status = "active"}),
                 trialUsers |->
                   Count({r \in Rows : r.plan_type = "trial" /\ r.status = "active"}),
                 paidUsers |->
                   Count({r \in Rows : r.plan_type # "trial" /\ r.status = "active"}),
                 totalRevenue |-> planDistribution.monthly * 299 * 6
                                    + planDistribution.semiannual * 999
                                    + planDistribution.annual * 1999,
                 monthlyRevenue |->
                   Ratio(planDistribution.monthly * 299 * 12
                           + planDistribution.semiannual * 999 * 2
                           + planDistribution.annual * 1999, 12),
                 churnRate |-> DashboardChurn(totalUsers),
                 planDistribution |-> planDistribution]
           ELSE stats
      /\ ret' = Return("loadSubscriptionStats", <<totalUsers>>, error, FALSE, None)
      /\ UNCHANGED <<store, now, upgrade>>

\* ------------------------------------------------------- specifications
\* Every operation of the service, on few inputs: one tenant subscribes, the
\* reads ask for both.
Next ==
  \/ \E planType \in {"trial", "monthly"}, error \in WriteErrors :
       /\ Len(store) < MaxSubs
       /\ createSubscription("u1", planType, Absent, Absent, error)
       /\ UNCHANGED <<upgrade, stats>>
  \/ \E userId \in Users, error \in WriteErrors :
       /\ getUserSubscription(userId, error)
       /\ UNCHANGED <<upgrade, stats>>
  \/ \E userId \in Users, error \in WriteErrors :
       /\ checkSubscriptionAccess(userId, error)
       /\ UNCHANGED <<upgrade, stats>>
  \/ \E subscriptionId \in 1..MaxSubs, status \in {"active", "expired", "cancelled"},
        error \in WriteErrors :
       /\ updateSubscriptionStatus(subscriptionId, status, error)
       /\ UNCHANGED <<upgrade, stats>>
  \/ \E error \in WriteErrors :
       /\ getAllSubscriptions(error)
       /\ UNCHANGED <<upgrade, stats>>
  \/ \E error \in WriteErrors :
       /\ getSubscriptionStats(error)
       /\ UNCHANGED <<upgrade, stats>>
  \/ \E t \in {720} : t <= MaxNow /\ Tick(t) /\ UNCHANGED <<upgrade, stats>>

Spec == Init /\ [][Next]_vars

\* Access over time and status: one tenant subscribes, another never does.
NextAccess ==
  \/ \E planType \in {"trial", "annual"} :
       /\ Len(store) < MaxAccessSubs
       /\ createSubscription("u1", planType, Absent, Absent, NoError)
       /\ UNCHANGED <<upgrade, stats>>
  \/ \E userId \in Users, error \in StoreErrors :
       /\ getUserSubscription(userId, error)
       /\ UNCHANGED <<upgrade, stats>>
  \/ \E userId \in Users, error \in StoreErrors :
       /\ checkSubscriptionAccess(userId, error)
       /\ UNCHANGED <<upgrade, stats>>
  \/ \E subscriptionId \in 1..MaxAccessSubs, status \in Statuses :
       /\ updateSubscriptionStatus(subscriptionId, status, NoError)
       /\ UNCHANGED <<upgrade, stats>>
  \/ \E t \in Instants : t <= MaxNow /\ Tick(t) /\ UNCHANGED <<upgrade, stats>>

SpecAccess == Init /\ [][NextAccess]_vars

\* Creation on every plan identifier, with and without references, on a
\* working and on a failing store.
NextCreate ==
  \/ \E userId \in Users, planType \in PlanInputs, refs \in StripeRefs,
        error \in WriteErrors :
       /\ Len(store) < MaxCreateSubs
       /\ createSubscription(userId, planType, refs[1], refs[2], error)
       /\ UNCHANGED <<upgrade, stats>>
  \/ \E t \in {708} : t <= MaxNow /\ Tick(t) /\ UNCHANGED <<upgrade, stats>>

SpecCreate == Init /\ [][NextCreate]_vars

\* Lookup of the current row among several rows and tenants.
NextLookup ==
  \/ \E userId \in Users, planType \in {"trial", "annual"} :
       /\ Len(store) < MaxLookupSubs
       /\ createSubscription(userId, planType, Absent, Absent, NoError)
       /\ UNCHANGED <<upgrade, stats>>
  \/ \E userId \in Users, error \in StoreErrors :
       /\ getUserSubscription(userId, error)
       /\ UNCHANGED <<upgrade, stats>>
  \/ \E userId \in Users :
       /\ checkSubscriptionAccess(userId, NoError)
       /\ UNCHANGED <<upgrade, stats>>
  \/ \E t \in {708, 720} : t <= MaxNow /\ Tick(t) /\ UNCHANGED <<upgrade, stats>>

SpecLookup == Init /\ [][NextLookup]_vars

\* Upgrades of one tenant from two pages, one after the other or interleaved.
NextUpgrade ==
  \/ \E tab \in Tabs, selectedPlan \in {"monthly", "annual"},
        error \in WriteErrors :
       handleUpgradeLookup(tab, selectedPlan, error)
  \/ \E tab \in Tabs, error \in WriteErrors :
       /\ Len(store) < MaxUpgradeSubs
       /\ handleUpgradeCreate(tab, error)
  \/ \E tab \in Tabs :
       /\ upgrade[tab].pc = "navigated"
       /\ upgrade' = [upgrade EXCEPT ![tab].pc = "idle"]
       /\ UNCHANGED <<store, now, ret, stats>>
  \/ \E t \in {708} : t <= MaxNow /\ Tick(t) /\ UNCHANGED <<upgrade, stats>>

SpecUpgrade == Init /\ [][NextUpgrade]_vars

\* Features of rows of every plan identifier in every status.
NextFeatures ==
  \/ \E planType \in PlanInputs :
       /\ Len(store) < MaxFeatureSubs
       /\ createSubscription("u1", planType, Absent, Absent, NoError)
       /\ UNCHANGED <<upgrade, stats>>
  \/ \E subscriptionId \in 1..MaxFeatureSubs, status \in Statuses :
       /\ updateSubscriptionStatus(subscriptionId, status, NoError)
       /\ UNCHANGED <<upgrade, stats>>
  \/ \E userId \in Users, error \in StoreErrors :
       /\ checkSubscriptionAccess(userId, error)
       /\ UNCHANGED <<upgrade, stats>>
  \/ \E t \in {720} : t <= MaxNow /\ Tick(t) /\ UNCHANGED <<upgrade, stats>>

SpecFeatures == Init /\ [][NextFeatures]_vars

\* The aggregate reads over rows of every plan identifier, some of them
\* expired or cancelled, on a working and on a failing store.
NextStats ==
  \/ \E planType \in PlanInputs :
       /\ Len(store) < MaxStatsSubs
       /\ createSubscription("u1", planType, Absent, Absent, NoError)
       /\ UNCHANGED <<upgrade, stats>>
  \/ \E subscriptionId \in 1..MaxStatsSubs, status \in {"expired", "cancelled"} :
       /\ updateSubscriptionStatus(subscriptionId, status, NoError)
       /\ UNCHANGED <<upgrade, stats>>
  \/ \E error \in WriteErrors :
       /\ getAllSubscriptions(error)
       /\ UNCHANGED <<upgrade, stats>>
  \/ \E error \in WriteErrors :
       /\ getSubscriptionStats(error)
       /\ UNCHANGED <<upgrade, stats>>
  \/ \E t \in {720} : t <= MaxNow /\ Tick(t) /\ UNCHANGED <<upgrade, stats>>

SpecStats == Init /\ [][NextStats]_vars

\* The churn rate over a population of up to ten rows of one plan.
NextChurn ==
  \/ /\ Len(store) < MaxChurnSubs
     /\ createSubscription("u1", "monthly", Absent, Absent, NoError)
     /\ UNCHANGED <<upgrade, stats>>
  \/ \E subscriptionId \in 1..MaxChurnSubs :
       /\ updateSubscriptionStatus(subscriptionId, "cancelled", NoError)
       /\ UNCHANGED <<upgrade, stats>>
  \/ /\ getSubscriptionStats(NoError)
     /\ UNCHANGED <<upgrade, stats>>

SpecChurn == Init /\ [][NextChurn]_vars

\* The dashboard over rows in every status and a users table of 0 to MaxUsers
\* rows, readable or not.
NextDashboard ==
  \/ /\ Len(store) < MaxDashboardSubs
     /\ createSubscription("u1", "monthly", Absent, Absent, NoError)
     /\ UNCHANGED <<upgrade, stats>>
  \/ \E subscriptionId \in 1..MaxDashboardSubs, status \in {"expired", "cancelled"} :
       /\ updateSubscriptionStatus(subscriptionId, status, NoError)
       /\ UNCHANGED <<upgrade, stats>>
  \/ \E totalUsers \in UserCounts, error \in WriteErrors :
       loadSubscriptionStats(totalUsers, error)

SpecDashboard == Init /\ [][NextDashboard]_vars

\* Two tenants subscribing, their rows updated, and access evaluated for both.
NextIsolation ==
  \/ \E userId \in Users, planType \in {"trial", "annual"} :
       /\ Len(store) < MaxIsolationSubs
       /\ createSubscription(userId, planType, Absent, Absent, NoError)
       /\ UNCHANGED <<upgrade, stats>>
  \/ \E subscriptionId \in 1..MaxIsolationSubs, status \in {"expired", "cancelled"} :
       /\ updateSubscriptionStatus(subscriptionId, status, NoError)
       /\ UNCHANGED <<upgrade, stats>>
  \/ \E userId \in Users :
       /\ checkSubscriptionAccess(userId, NoError)
       /\ UNCHANGED <<upgrade, stats>>
  \/ \E t \in {720} : t <= MaxNow /\ Tick(t) /\ UNCHANGED <<upgrade, stats>>

SpecIsolation == Init /\ [][NextIsolation]_vars

\* ----------------------------------------------------------------- claims
\* The last call was checkSubscriptionAccess / getUserSubscription; its tenant.
IsCheck == ret.op = "checkSubscriptionAccess"
IsGet == ret.op = "getUserSubscription"
Tenant == ret.args[1]

\* The rows of the tenant u that no other row of u is newer than.
Newest(u) ==
  {r \in Rows : /\ r.user_id = u
                /\ \A q \in Rows : q.user_id = u =>
                     q.created_at[1] * Day + q.created_at[2]
                       <= r.created_at[1] * Day + r.created_at[2]}

\* Hours from the instant of the last call to the end of the period of row r.
Left(r) == r.current_period_end[1] * Day + r.current_period_end[2] - ret.at

\* C1: on a working store, for a tenant that has a row, checkSubscriptionAccess
\* answers with a newest row of the tenant, and hasAccess is true exactly when
\* that row is active and its period ends strictly after the instant of the
\* call: false for expired, cancelled and past_due whatever the period, false
\* for an active row whose period ends at or before the call.
C1_HasAccessIffActiveAndUnexpired ==
  (IsCheck /\ ret.error = NoError /\ Newest(Tenant) # {}) =>
    /\ ret.value.subscription \in Newest(Tenant)
    /\ ret.value.hasAccess =
         (ret.value.subscription.status = "active"
            /\ Left(ret.value.subscription) > 0)
    /\ ret.value.subscription.status \in {"expired", "cancelled", "past_due"}
         => ret.value.hasAccess = FALSE
    /\ Left(ret.value.subscription) <= 0 => ret.value.hasAccess = FALSE

\* C1 witness: a cancelled row whose period is still running was refused.
C1_Witness ==
  /\ IsCheck /\ ret.error = NoError /\ Newest(Tenant) # {}
  /\ ret.value.subscription.status = "cancelled"
  /\ Left(ret.value.subscription) > 0
  /\ ret.value.hasAccess = FALSE

\* C2: for a tenant without any row, checkSubscriptionAccess answers exactly
\* hasAccess false, no subscription, and the trial feature set (100 customers,
\* 1 branch, the four flags false).
C2_NoRecordDecision ==
  (IsCheck /\ \A r \in Rows : r.user_id # Tenant) =>
    ret.value =
      [hasAccess |-> FALSE, subscription |-> None,
       features |-> [maxCustomers |-> 100, maxBranches |-> 1,
                     advancedAnalytics |-> FALSE, prioritySupport |-> FALSE,
                     customBranding |-> FALSE, apiAccess |-> FALSE]]

\* C2 witness: the store works and holds a row of another tenant only.
C2_Witness ==
  /\ IsCheck /\ ret.error = NoError /\ ~ret.threw
  /\ Rows # {} /\ \A r \in Rows : r.user_id # Tenant
  /\ ret.value.hasAccess = FALSE

\* C3: getUserSubscription and checkSubscriptionAccess never throw; when the
\* read fails the former answers null and the latter the decision of a tenant
\* without subscription; checkSubscriptionAccess can be called, and answers
\* with a decision, for every tenant in every state and on a failing store.
C3_ReadsNeverRaise ==
  /\ (IsGet \/ IsCheck) => ~ret.threw
  /\ (IsGet /\ ret.error # NoError) => ret.value = None
  /\ IsCheck => ret.value.hasAccess \in BOOLEAN
  /\ (IsCheck /\ ret.error # NoError) =>
       ret.value =
         [hasAccess |-> FALSE, subscription |-> None,
          features |-> [maxCustomers |-> 100, maxBranches |-> 1,
                        advancedAnalytics |-> FALSE, prioritySupport |-> FALSE,
                        customBranding |-> FALSE, apiAccess |-> FALSE]]
  /\ \A u \in Users, e \in StoreErrors :
       ENABLED checkSubscriptionAccess(u, e) /\ ENABLED getUserSubscription(u, e)

\* C3 witness: the read failed for a tenant whose active row is still running.
C3_Witness ==
  /\ IsCheck /\ ret.error = "500" /\ ~ret.threw
  /\ \E r \in Newest(Tenant) : r.status = "active" /\ Left(r) > 0
  /\ ret.value.subscription = None /\ ret.value.hasAccess = FALSE

\* C4: for a resolved subscription daysRemaining is the least whole number of
\* days, not below 0, that covers the time left to the end of the period:
\* never negative, 0 when the period has ended, 1 when at most one day is left.
C4_DaysRemaining ==
  (IsCheck /\ ret.value.subscription # None) =>
    LET left == Left(ret.value.subscription)
        days == ret.value.daysRemaining
    IN  /\ days >= 0
        /\ days * Day >= left
        /\ days > 0 => (days - 1) * Day < left
        /\ left <= 0 => days = 0
        /\ (0 < left /\ left <= Day) => days = 1

\* C4 witness: an active row ending exactly one day after the call gave access
\* and one day.
C4_Witness ==
  /\ IsCheck /\ ret.value.subscription # None
  /\ Left(ret.value.subscription) = Day
  /\ ret.value.hasAccess = TRUE
  /\ ret.value.daysRemaining = 1

\* C4: a period that ended 10 days before the call gives 0 days.
C4_TenDaysAgo ==
  /\ IsCheck /\ ret.value.subscription # None
  /\ Left(ret.value.subscription) = -10 * Day
  /\ ret.value.daysRemaining = 0

ReadOps ==
  {"getUserSubscription", "checkSubscriptionAccess", "getAllSubscriptions",
   "getSubscriptionStats"}

\* C5: a step of a read operation, and a step of the clock, leave the store as
\* it was; the store changes only in a step of createSubscription or
\* updateSubscriptionStatus that did not throw.
C5_ReadsChangeNothing ==
  [][/\ (ret'.op \in ReadOps \/ now' # now) => store' = store
     /\ store' # store =>
          /\ ret'.op \in {"createSubscription", "updateSubscriptionStatus"}
          /\ ~ret'.threw]_vars

\* C5 witness: access was evaluated after the period of an active row had
\* ended, and the row is still active.
C5_Witness ==
  /\ IsCheck /\ ret.value.subscription # None
  /\ Left(ret.value.subscription) <= 0
  /\ ret.value.hasAccess = FALSE
  /\ \E r \in Rows : r = ret.value.subscription /\ r.status = "active"

IsCreate == ret.op = "createSubscription"

\* C6: two calls of checkSubscriptionAccess for the same tenant, one right
\* after the other at the same instant, with the same outcome of the store
\* request and no change of the store, answer the same decision.
C6_CheckTwiceSameDecision ==
  [][(/\ IsCheck /\ ret'.op = "checkSubscriptionAccess"
      /\ ret'.args = ret.args /\ ret'.error = ret.error
      /\ ret.at = now /\ now' = now /\ store' = store)
     => ret'.value = ret.value]_vars

\* The length of the period of a plan identifier, in hours.
PlanHours(planType) ==
  IF planType = "semiannual" THEN 180 * Day
  ELSE IF planType = "annual" THEN 365 * Day
  ELSE 30 * Day

\* Hours between the start and the end of the period of row r.
PeriodHours(r) ==
  (r.current_period_end[1] * Day + r.current_period_end[2])
    - (r.current_period_start[1] * Day + r.current_period_start[2])

\* C7: every row of the store has a period of exactly the length of its plan:
\* 30 days for trial and monthly, 180 for semiannual, 365 for annual, 30 for
\* an identifier that is none of these; so its period ends after it starts.
C7_PeriodIsPlanDuration ==
  \A r \in Rows :
    /\ PeriodHours(r) = PlanHours(r.plan_type)
    /\ PeriodHours(r) > 0

\* C7 witness: a row of an unlisted plan identifier and a row of the annual
\* plan, created when the clock was not at a whole day.
C7_Witness ==
  /\ \E r \in Rows : r.plan_type = "lifetime" /\ r.current_period_start[2] # 0
  /\ \E r \in Rows : r.plan_type = "annual"

\* C8: a createSubscription that returns appends exactly the returned row and
\* leaves every earlier row as it was; the row has the given tenant and plan,
\* status active, a period starting at the instant of the call, and the two
\* references as passed.
C8_CreateAppendsOneRow ==
  [][(now' = now /\ ret'.op = "createSubscription" /\ ~ret'.threw) =>
       /\ store' = Append(store, ret'.value)
       /\ ret'.value.user_id = ret'.args[1]
       /\ ret'.value.plan_type = ret'.args[2]
       /\ ret'.value.status = "active"
       /\ ret'.value.current_period_start[1] * Day
            + ret'.value.current_period_start[2] = now
       /\ ret'.value.stripe_subscription_id = ret'.args[3]
       /\ ret'.value.stripe_customer_id = ret'.args[4]]_vars

\* C8 witness: a second row of a tenant was created with both references
\* while the tenant's first row was active.
C8_Witness ==
  /\ IsCreate /\ ~ret.threw /\ Len(store) = 2
  /\ store[2] = ret.value
  /\ store[1].user_id = store[2].user_id /\ store[1].status = "active"
  /\ ret.args[3] = "sub_A" /\ ret.args[4] = "cus_A"

\* C9: a createSubscription whose insert fails throws, returns no
\* subscription, and leaves the store as it was.
C9_FailedCreateThrows ==
  [][(now' = now /\ ret'.op = "createSubscription" /\ ret'.error # NoError) =>
       /\ ret'.threw
       /\ ret'.value = None
       /\ store' = store]_vars

\* C9 witness: the insert failed on a store that already held a row.
C9_Witness ==
  /\ IsCreate /\ ret.error = "500" /\ ret.threw /\ Len(store) = 1

\* C10: on a working store getUserSubscription answers null exactly when the
\* tenant has no row; otherwise it answers a row of the store that the tenant
\* owns and that none of the tenant's rows is newer than.
C10_LookupNewestOfTenant ==
  (IsGet /\ ret.error = NoError) =>
    /\ (ret.value = None) = (\A r \in Rows : r.user_id # Tenant)
    /\ ret.value # None =>
         /\ ret.value \in Rows
         /\ ret.value.user_id = Tenant
         /\ \A q \in Rows : q.user_id = Tenant =>
              q.created_at[1] * Day + q.created_at[2]
                <= ret.value.created_at[1] * Day + ret.value.created_at[2]

\* C10 witness: the tenant has an older and a newer row, another tenant has
\* the newest row of the store, and the lookup answered the tenant's newer.
C10_Witness ==
  /\ IsGet /\ ret.error = NoError /\ ret.value # None
  /\ Len(store) = 3
  /\ store[1].user_id = Tenant /\ store[2].user_id = Tenant
  /\ store[3].user_id # Tenant
  /\ store[1].created_at # store[2].created_at
  /\ store[2].created_at # store[3].created_at
  /\ ret.value = store[2]

IsUpdate == ret.op = "updateSubscriptionStatus"

\* The rows of greatest id among the newest rows of tenant u: of the rows of
\* equal created_at, the one inserted last.
InsertedLast(u) == {r \in Newest(u) : \A q \in Newest(u) : q.id <= r.id}

\* C11: when rows of a tenant have equal created_at, getUserSubscription
\* answers the one inserted last, and two lookups of a tenant on the same
\* store answer the same row.
C11_TieBrokenByInsertion ==
  [][/\ (IsGet /\ ret.error = NoError /\ ret.value # None)
        => ret.value \in InsertedLast(Tenant)
     /\ (IsGet /\ ret'.op = "getUserSubscription" /\ ret'.args = ret.args
          /\ ret.error = NoError /\ ret'.error = NoError /\ store' = store)
        => ret'.value = ret.value]_vars

\* C12: on a working store updateSubscriptionStatus of an existing row
\* returns normally whatever the row's status and the new status are, and
\* leaves the row with the new status and updated_at at the instant of the
\* call.
C12_AnyTransitionAccepted ==
  [][(now' = now /\ ret'.op = "updateSubscriptionStatus"
      /\ ret'.error = NoError /\ ret'.args[1] \in 1..Len(store)) =>
       /\ ~ret'.threw
       /\ Len(store') = Len(store)
       /\ store'[ret'.args[1]].status = ret'.args[2]
       /\ store'[ret'.args[1]].updated_at[1] * Day
            + store'[ret'.args[1]].updated_at[2] = now]_vars

\* C12 witness: a row was set back to active 40 days after its creation,
\* after its period of 30 days had ended.
C12_Witness ==
  /\ IsUpdate /\ ~ret.threw /\ ret.args[1] \in 1..Len(store)
  /\ ret.args[2] = "active"
  /\ store[ret.args[1]].status = "active"
  /\ store[ret.args[1]].updated_at = <<40, 0>>
  /\ store[ret.args[1]].current_period_end = <<30, 0>>

\* C13: createSubscription and updateSubscriptionStatus return normally only
\* when their write was applied: a returned createSubscription has appended
\* its row, a returned updateSubscriptionStatus has written the status of a
\* row of the given id; in every other case the call throws.
C13_WritesReportFailure ==
  [][/\ (now' = now /\ ret'.op = "createSubscription" /\ ~ret'.threw)
        => store' = Append(store, ret'.value)
     /\ (now' = now /\ ret'.op = "updateSubscriptionStatus" /\ ~ret'.threw)
        => \E i \in 1..Len(store) :
             /\ store[i].id = ret'.args[1]
             /\ store'[i].status = ret'.args[2]]_vars

\* C14: no step removes a row or changes a row's id, tenant, plan, period,
\* references or created_at; a row changes only in a step of
\* updateSubscriptionStatus called with its id, and then in status and
\* updated_at alone.
C14_HistoryAppendOnly ==
  [][/\ Len(store') >= Len(store)
     /\ \A i \in 1..Len(store) :
          /\ [store'[i] EXCEPT !.status = store[i].status,
                                !.updated_at = store[i].updated_at] = store[i]
          /\ store'[i] # store[i] =>
               /\ ret'.op = "updateSubscriptionStatus"
               /\ ret'.args[1] = store[i].id]_vars

\* C14 witness: of two rows the second was cancelled, the first is as created.
C14_Witness ==
  /\ IsUpdate /\ ret.args = <<2, "cancelled">> /\ Len(store) = 2
  /\ store[2].status = "cancelled"
  /\ store[1].status = "active" /\ store[1].updated_at = store[1].created_at
  /\ store[2].updated_at # store[2].created_at

\* C15: an upgrade whose insert the store accepts always adds an active row
\* of the tenant and navigates, also when the tenant already has an active
\* row whose period is running and when the upgrade found one before paying.
C15_NoUniquenessPerTenant ==
  [][\A tab \in Tabs :
       (upgrade[tab].pc = "paying" /\ upgrade'[tab] # upgrade[tab]
        /\ ret'.error = NoError) =>
         /\ ~ret'.threw
         /\ store' = Append(store, ret'.value)
         /\ ret'.value.user_id = TabUser(tab)
         /\ ret'.value.status = "active"
         /\ upgrade'[tab].pc = "navigated"]_vars

\* C15 witness: two upgrades that both looked up the tenant's subscription
\* before either created one have both succeeded, and the tenant owns two
\* active rows whose periods are running.
C15_Witness ==
  /\ \A tab \in Tabs : /\ upgrade[tab].pc = "navigated"
                        /\ upgrade[tab].existingSubscription = None
  /\ Len(store) = 2
  /\ \A i \in 1..2 :
       /\ store[i].user_id = "u1" /\ store[i].status = "active"
       /\ store[i].current_period_end[1] * Day + store[i].current_period_end[2]
            > now

\* The feature sets the catalog names, written out.
TrialSet ==
  [maxCustomers |-> 100, maxBranches |-> 1, advancedAnalytics |-> FALSE,
   prioritySupport |-> FALSE, customBranding |-> FALSE, apiAccess |-> FALSE]
MonthlySet ==
  [maxCustomers |-> -1, maxBranches |-> -1, advancedAnalytics |-> TRUE,
   prioritySupport |-> TRUE, customBranding |-> FALSE, apiAccess |-> FALSE]
LongPlanSet ==
  [maxCustomers |-> -1, maxBranches |-> -1, advancedAnalytics |-> TRUE,
   prioritySupport |-> TRUE, customBranding |-> TRUE, apiAccess |-> TRUE]
Catalog ==
  [planType \in PlanInputs |->
     IF planType = "monthly" THEN MonthlySet
     ELSE IF planType \in {"semiannual", "annual"} THEN LongPlanSet
     ELSE TrialSet]

\* C16: getPlanFeatures answers the catalog's set for each of the four plans
\* and the trial set for an unrecognized identifier, and a decision about a
\* tenant with a subscription carries the set of that row's plan whatever its
\* status, its period and hasAccess are.
C16_FeaturesFollowCatalog ==
  /\ \A planType \in PlanInputs : getPlanFeatures(planType) = Catalog[planType]
  /\ (IsCheck /\ ret.value.subscription # None) =>
       ret.value.features = Catalog[ret.value.subscription.plan_type]

\* C16 witness: a decision without access about a cancelled row of the
\* annual plan carries the annual features.
C16_Witness ==
  /\ IsCheck /\ ~ret.value.hasAccess
  /\ ret.value.subscription # None
  /\ ret.value.subscription.plan_type = "annual"
  /\ ret.value.subscription.status = "cancelled"
  /\ ret.value.features.apiAccess /\ ret.value.features.maxCustomers = -1

\* The last call was getSubscriptionStats / getAllSubscriptions.
IsStats == ret.op = "getSubscriptionStats"
IsList == ret.op = "getAllSubscriptions"
\* How many rows of the store have the status, are of the plan.
WithStatus(status) == Cardinality({i \in 1..Len(store) : store[i].status = status})
OfPlan(planType) == Cardinality({i \in 1..Len(store) : store[i].plan_type = planType})

\* C17: on a readable store getSubscriptionStats answers total = the number
\* of rows, active = the rows of status active (elapsed or not), trial = the
\* rows of the trial plan, paid = all other rows, over every row of the store.
C17_CountsOverAllRows ==
  (IsStats /\ ret.error = NoError) =>
    /\ ret.value.total = Len(store)
    /\ ret.value.active = WithStatus("active")
    /\ ret.value.trial = OfPlan("trial")
    /\ ret.value.paid = Len(store) - OfPlan("trial")

\* C17 witness: stats over two rows of one tenant, a trial row still active
\* after its period ended and an annual row: 2 in total, both counted active,
\* 1 trial, 1 paid.
C17_Witness ==
  /\ IsStats /\ ret.error = NoError
  /\ Len(store) = 2 /\ store[1].user_id = store[2].user_id
  /\ store[1].plan_type = "trial" /\ store[1].status = "active"
  /\ getTime(store[1].current_period_end) <= now
  /\ store[2].plan_type = "annual" /\ store[2].status = "active"
  /\ ret.value.total = 2 /\ ret.value.active = 2
  /\ ret.value.trial = 1 /\ ret.value.paid = 1

\* C18: getSubscriptionStats answers churnRate = 100 x cancelled / total when
\* there are rows, and 0 along with every other field when there are none;
\* 2 cancelled rows out of 10 give 20.
C18_ChurnRate ==
  (IsStats /\ ret.error = NoError) =>
    /\ ret.value.churnRate.den > 0
    /\ Len(store) > 0 =>
         SameNumber(ret.value.churnRate,
                    Ratio(100 * WithStatus("cancelled"), Len(store)))
    /\ Len(store) = 0 =>
         /\ SameNumber(ret.value.churnRate, Ratio(0, 1))
         /\ ret.value.total = 0 /\ ret.value.active = 0 /\ ret.value.trial = 0
         /\ ret.value.paid = 0 /\ ret.value.revenue = 0
    /\ (Len(store) = 10 /\ WithStatus("cancelled") = 2) =>
         SameNumber(ret.value.churnRate, Ratio(20, 1))

\* C18 witness: stats over 2 cancelled and 8 active rows answer 20.
C18_Witness ==
  /\ IsStats /\ ret.error = NoError
  /\ Len(store) = 10
  /\ WithStatus("cancelled") = 2 /\ WithStatus("active") = 8
  /\ SameNumber(ret.value.churnRate, Ratio(20, 1))

\* Stats of the empty store: every field 0.
C18_EmptyPopulation ==
  /\ IsStats /\ ret.error = NoError /\ Len(store) = 0
  /\ ret.value.total = 0 /\ SameNumber(ret.value.churnRate, Ratio(0, 1))

\* C19: on a readable store getSubscriptionStats answers as revenue, in
\* cents, 299 per monthly row, 999 per semiannual row, 1999 per annual row
\* and nothing per trial row or row of an unrecognized plan, whatever the
\* rows' status.
C19_RevenueOverAllRows ==
  (IsStats /\ ret.error = NoError) =>
    ret.value.revenue = 299 * OfPlan("monthly") + 999 * OfPlan("semiannual")
                          + 1999 * OfPlan("annual")

\* C19 witness: a cancelled monthly row and an expired annual row are worth
\* 2.99 + 19.99.
C19_Witness ==
  /\ IsStats /\ ret.error = NoError /\ Len(store) = 2
  /\ store[1].plan_type = "monthly" /\ store[1].status = "cancelled"
  /\ store[2].plan_type = "annual" /\ store[2].status = "expired"
  /\ ret.value.revenue = 2298

\* C19, no price: rows of the trial plan and of an unrecognized plan are
\* worth nothing.
C19_NoPrice ==
  /\ IsStats /\ ret.error = NoError /\ Len(store) = 2
  /\ store[1].plan_type = "lifetime" /\ store[2].plan_type = "trial"
  /\ ret.value.revenue = 0

\* C20: when the store's read fails, getSubscriptionStats returns the stats
\* with every field 0 and getAllSubscriptions returns the empty list; neither
\* throws.
C20_AggregateReadsSwallowFailure ==
  /\ (IsStats /\ ret.error # NoError) =>
       /\ ~ret.threw
       /\ ret.value.total = 0 /\ ret.value.active = 0 /\ ret.value.trial = 0
       /\ ret.value.paid = 0 /\ ret.value.revenue = 0
       /\ ret.value.churnRate.num = 0 /\ ret.value.churnRate.den > 0
  /\ (IsList /\ ret.error # NoError) => (~ret.threw /\ ret.value = << >>)

\* C20 witness: the store holds two rows, one of them paid for and one
\* cancelled, its read fails, and the stats are all 0.
C20_Witness ==
  /\ IsStats /\ ret.error # NoError /\ ~ret.threw
  /\ Len(store) = 2 /\ OfPlan("annual") = 1 /\ WithStatus("cancelled") = 1
  /\ ret.value.total = 0 /\ ret.value.revenue = 0

\* C20, the list: the store holds two rows, its read fails, and the list is
\* empty.
C20_EmptyList ==
  /\ IsList /\ ret.error # NoError /\ ~ret.threw
  /\ Len(store) = 2 /\ ret.value = << >>

\* The row of tenant u that createSubscription added last.
LastCreated(u) == CHOOSE r \in RowsOf(u) : \A q \in RowsOf(u) : q.id <= r.id

\* The lookup and the decision about the tenant of the last call are those of
\* the row created last for that tenant.
AnswersLastCreated ==
  /\ (IsGet /\ ret.error = NoError /\ RowsOf(Tenant) # {}) =>
       ret.value = LastCreated(Tenant)
  /\ (IsCheck /\ ret.error = NoError /\ RowsOf(Tenant) # {}) =>
       /\ ret.value.subscription = LastCreated(Tenant)
       /\ ret.value.features = getPlanFeatures(LastCreated(Tenant).plan_type)
       /\ ret.value.daysRemaining = daysRemaining(LastCreated(Tenant), ret.at)

\* C21: a successful createSubscription leaves the rows already stored as
\* they were, and from then on, until the tenant's next create, the lookup
\* answers the row just created and the decision reports that row, the
\* features of its plan and the days of its period.
C21_NewRowBecomesCurrent ==
  [][/\ (ret'.op = "createSubscription" /\ ~ret'.threw) =>
          \A i \in 1..Len(store) : store'[i] = store[i]
     /\ AnswersLastCreated]_vars

\* C21 apart from rows of equal created_at: when the tenant's rows were all
\* created at different instants, the row created last is the current one.
C21_DistinctInstants ==
  [][/\ (ret'.op = "createSubscription" /\ ~ret'.threw) =>
          \A i \in 1..Len(store) : store'[i] = store[i]
     /\ (\A q, r \in RowsOf(Tenant) : q.created_at = r.created_at => q = r)
          => AnswersLastCreated]_vars

\* The last call was loadSubscriptionStats of the dashboard.
IsLoad == ret.op = "loadSubscriptionStats"

\* C22: when the dashboard has read the subscriptions, its churn rate is
\* 100 x (rows of status expired) / (count of users), and 0 when that count
\* is 0 or was not answered: a function of the expired rows and of the users,
\* not of the cancelled rows or of the number of rows.
C22_DashboardChurn ==
  (IsLoad /\ ret.error = NoError) =>
    LET totalUsers == ret.args[1]
    IN  /\ stats.churnRate.den > 0
        /\ (totalUsers # None /\ totalUsers.count > 0) =>
             SameNumber(stats.churnRate,
                        Ratio(100 * WithStatus("expired"), totalUsers.count))
        /\ (totalUsers = None \/ totalUsers.count = 0) =>
             SameNumber(stats.churnRate, Ratio(0, 1))

\* C22 witness: one expired and one cancelled row, three users: the
\* dashboard shows 100 x 1 / 3 while the service's rate is 100 x 1 / 2.
C22_Witness ==
  /\ IsLoad /\ ret.error = NoError
  /\ ret.args[1] = [count |-> 3]
  /\ Len(store) = 2
  /\ WithStatus("expired") = 1 /\ WithStatus("cancelled") = 1
  /\ SameNumber(stats.churnRate, Ratio(100, 3))
  /\ SameNumber(Stats.churnRate, Ratio(50, 1))

\* C22, no users: rows have expired, the users table answers no count, and
\* the dashboard shows 0.
C22_CountUnavailable ==
  /\ IsLoad /\ ret.error = NoError /\ ret.args[1] = None
  /\ WithStatus("expired") = 2
  /\ SameNumber(stats.churnRate, Ratio(0, 1))

\* C23: a decision of checkSubscriptionAccess with hasAccess true names a
\* subscription, that subscription is active, and the decision's
\* daysRemaining is there and at least 1.
C23_AccessHasDaysLeft ==
  (IsCheck /\ ret.value.hasAccess) =>
    /\ ret.value.subscription # None
    /\ ret.value.subscription.status = "active"
    /\ "daysRemaining" \in DOMAIN ret.value
    /\ ret.value.daysRemaining >= 1

\* C23 witness: access was granted to an active row half a day before the
\* end of its period, with 1 day remaining.
C23_Witness ==
  /\ IsCheck /\ ret.value.hasAccess
  /\ 0 < Left(ret.value.subscription) /\ 2 * Left(ret.value.subscription) = Day
  /\ ret.value.daysRemaining = 1

\* Two decisions in a row about one tenant: the second no better than the
\* first.
NoBetter(first, second) ==
  /\ ~first.hasAccess => ~second.hasAccess
  /\ ("daysRemaining" \in DOMAIN first /\ "daysRemaining" \in DOMAIN second)
       => second.daysRemaining <= first.daysRemaining

\* C24: of two calls of checkSubscriptionAccess for a tenant, the later one
\* at the same or a later instant and the store unchanged in between, the
\* later one answers no more daysRemaining than the earlier, and no access
\* when the earlier answered none.
C24_AccessOnlyDecays ==
  [][(/\ IsCheck /\ ret'.op = "checkSubscriptionAccess"
      /\ ret'.args = ret.args /\ store' = store)
     => NoBetter(ret.value, ret'.value)]_vars

\* C24 for one record: two such calls that resolve the same row.
C24_SameRecordDecays ==
  [][(/\ IsCheck /\ ret'.op = "checkSubscriptionAccess"
      /\ ret'.args = ret.args /\ store' = store
      /\ ret.value.subscription # None
      /\ ret'.value.subscription = ret.value.subscription)
     => NoBetter(ret.value, ret'.value)]_vars

\* What checkSubscriptionAccess may answer about tenant u at this instant.
Decisions(u, error) ==
  {IF o.threw THEN NoSubscriptionDecision ELSE AccessDecision(o.value, now) :
     o \in getUserSubscriptionOutcomes(u, error)}

\* C25: a createSubscription for a tenant, and an updateSubscriptionStatus of
\* a row owned by a tenant, leave what getUserSubscription and
\* checkSubscriptionAccess may answer about every other tenant at that
\* instant as it was, whatever the outcome of the read's store request.
C25_TenantIsolation ==
  [][\A u \in Users :
       (/\ now' = now
        /\ \/ ret'.op = "createSubscription" /\ ret'.args[1] # u
           \/ /\ ret'.op = "updateSubscriptionStatus"
              /\ \A i \in 1..Len(store) :
                   store[i].id = ret'.args[1] => store[i].user_id # u)
       => \A error \in StoreErrors :
            /\ getUserSubscriptionOutcomes(u, error)'
                 = getUserSubscriptionOutcomes(u, error)
            /\ Decisions(u, error)' = Decisions(u, error)]_vars

\* C25 witness: the row of tenant u1 was cancelled after tenant u2 had
\* subscribed, and u2 is answered its own active row with access.
C25_Witness ==
  /\ IsCheck /\ Tenant = "u2" /\ ret.value.hasAccess
  /\ ret.value.subscription.user_id = "u2"
  /\ Len(store) = 2
  /\ store[1].user_id = "u2" /\ store[2].user_id = "u1"
  /\ store[2].status = "cancelled"
  /\ store[2].updated_at # store[2].created_at

\* C26: the stats getSubscriptionStats returns, on a readable store or not,
\* satisfy trial + paid = total, 0 <= active <= total and
\* 0 <= churnRate <= 100.
C26_StatsAreConsistent ==
  IsStats =>
    /\ ret.value.trial + ret.value.paid = ret.value.total
    /\ 0 <= ret.value.active /\ ret.value.active <= ret.value.total
    /\ ret.value.churnRate.den > 0
    /\ 0 <= ret.value.churnRate.num
    /\ ret.value.churnRate.num <= 100 * ret.value.churnRate.den

\* C26 witness: stats over a cancelled row of an unrecognized plan and a
\* cancelled trial row: 1 trial, 1 paid, none active, churn rate 100.
C26_Witness ==
  /\ IsStats /\ ret.error = NoError /\ Len(store) = 2
  /\ OfPlan("lifetime") = 1 /\ OfPlan("trial") = 1
  /\ WithStatus("cancelled") = 2
  /\ ret.value.total = 2 /\ ret.value.trial = 1 /\ ret.value.paid = 1
  /\ ret.value.active = 0
  /\ SameNumber(ret.value.churnRate, Ratio(100, 1))

====
